---- MODULE Spec2Model ----
(***************************************************************************)
(* The 2D compressible Euler solver of cfd_euler_gpu.cpp: the Initializer  *)
(* (obstacle mask + seeding), and the time-stepping loop with its passes   *)
(* (left/right boundary, bottom/top boundary, Lax-Friedrichs interior      *)
(* update, commit, kinetic-energy diagnostic).                             *)
(*                                                                         *)
(* Every `parallel for` is modelled per iteration: the iterations of one   *)
(* pass run in any order, and the next pass is launched only when the      *)
(* previous target region has returned.  An Initializer iteration is two   *)
(* steps, because the store into the bit-packed vector<bool> is a          *)
(* read-modify-write of a whole word.                                      *)
(*                                                                         *)
(* A double is modelled as a fixed-point number: the integer v stands for  *)
(* v/Scale, and every product and quotient is rounded to the nearest       *)
(* multiple of 1/Scale (as every double operation rounds to 53 bits).      *)
(***************************************************************************)
EXTENDS Integers, FiniteSets, Sequences, TLC

\* ---------------------------------------------------------------- numbers
Scale == 1000

Abs(a) == IF a < 0 THEN -a ELSE a

Min(a, b) == IF a < b THEN a ELSE b

\* a/b rounded to the nearest integer, halves away from zero (sign-symmetric)
RoundDiv(a, b) ==
    LET s == IF (a < 0) = (b < 0) THEN 1 ELSE -1
    IN  s * ((2 * Abs(a) + Abs(b)) \div (2 * Abs(b)))

Mul(a, b) == RoundDiv(a * b, Scale)

Div(a, b) == RoundDiv(a * Scale, b)

Sqrt(a) == CHOOSE r \in 0..(a + Scale) : r * r <= a * Scale /\ a * Scale < (r + 1) * (r + 1)

Half == Scale \div 2

Quarter == Scale \div 4

\* ------------------------------------------------------------- parameters
gamma_val == 1400
CFL == 500

Nx == 2
Ny == 2
Lx == 2000
Ly == 1000
dx == Div(Lx, Nx * Scale)
dy == Div(Ly, Ny * Scale)

total_size == (Nx + 2) * (Ny + 2)

cx == 500
cy == 500

rho0 == 1000
u0 == 1000
p0 == 1000

DiagEvery == 50

\* run lengths examined (the loop bound nSteps of the run)
ShortRun == 3
LongRun == 51

\* The configurations examined: the obstacle radius (none, the 0.1 of the source,
\* and 0.25, which reaches cell centres of the small grid) and the free-stream
\* v0 (the 0 of the source, and 0.5).
Radii == {0, 100, 250}
V0s == {0, 500}

\* vector<bool> packs WordBits elements into one machine word
WordBits == 64
NWords == (total_size + WordBits - 1) \div WordBits

\* threads running the Initializer's iterations (static schedule)
NThreads == 2

\* content of a device array element that was allocated and never written
Uninit == -999999

\* ----------------------------------------------------------------- grid
Idx(i, j) == i * (Ny + 2) + j

Cells == 0..(total_size - 1)

Col(k) == k \div (Ny + 2)

Row(k) == k % (Ny + 2)

Interior == {Idx(i, j) : i \in 1..Nx, j \in 1..Ny}

Ghost == Cells \ Interior

Corners == {Idx(0, 0), Idx(0, Ny + 1), Idx(Nx + 1, 0), Idx(Nx + 1, Ny + 1)}

\* ------------------------------------------------- thermodynamics, fluxes
pressure(r, ru, rv, e) ==
    LET u == Div(ru, r)
        v == Div(rv, r)
        kinetic == Mul(Mul(Half, r), Mul(u, u) + Mul(v, v))
    IN  Mul(gamma_val - Scale, e - kinetic)

fluxX(r, ru, rv, e) ==
    LET u == Div(ru, r)
        p == pressure(r, ru, rv, e)
    IN  [frho |-> ru, frhou |-> Mul(ru, u) + p, frhov |-> Mul(rv, u), fE |-> Mul(e + p, u)]

fluxY(r, ru, rv, e) ==
    LET v == Div(rv, r)
        p == pressure(r, ru, rv, e)
    IN  [frho |-> rv, frhou |-> Mul(ru, v), frhov |-> Mul(rv, v) + p, fE |-> Mul(e + p, v)]

E0(v0) == Div(p0, gamma_val - Scale) + Mul(Mul(Half, rho0), Mul(u0, u0) + Mul(v0, v0))

\* ------------------------------------------------------------------ state
VARIABLES
    radius, v0, nSteps,               \* the configuration of the run
    pc,                               \* the driver's position
    n,                                \* step index of the time loop
    rho, rhou, rhov, E,               \* current buffer
    rho_new, rhou_new, rhov_new, E_new, \* next buffer
    solid,                            \* the words of vector<bool> solid
    thr,                              \* Initializer threads
    dt,
    todo,                             \* iterations of the running pass not yet executed
    total_kinetic,
    out,                              \* lines printed by the diagnostic
    log                               \* accesses of the current step (instrumentation)

vars == <<radius, v0, nSteps, pc, n, rho, rhou, rhov, E, rho_new, rhou_new, rhov_new, E_new,
          solid, thr, dt, todo, total_kinetic, out, log>>

\* solid[k] of the bit-packed vector
IsSolid(k) == (k % WordBits) \in solid[k \div WordBits]

\* the Initializer's classification of cell (i,j)
InObstacle(i, j) ==
    LET x == Mul(i * Scale - Half, dx)
        y == Mul(j * Scale - Half, dy)
    IN  Mul(x - cx, x - cx) + Mul(y - cy, y - cy) <= Mul(radius, radius)

EmptyLog == [lr |-> {}, tb |-> {}, upd |-> {}, com |-> {}, diag |-> {},
             rdCur |-> {}, wrNew |-> {}, rdNew |-> {}]

\* static schedule: thread t runs the contiguous block ChunkLo(t)..ChunkHi(t)-1
ChunkSize == (total_size + NThreads - 1) \div NThreads

ChunkLo(t) == Min(t * ChunkSize, total_size)

ChunkHi(t) == Min((t + 1) * ChunkSize, total_size)

Threads == 0..(NThreads - 1)

InitWith(R, V, S) ==
    /\ radius \in R
    /\ v0 \in V
    /\ nSteps \in S
    /\ pc = "init"
    /\ n = 0
    /\ rho = [k \in Cells |-> 0]
    /\ rhou = [k \in Cells |-> 0]
    /\ rhov = [k \in Cells |-> 0]
    /\ E = [k \in Cells |-> 0]
    /\ rho_new = [k \in Cells |-> Uninit]
    /\ rhou_new = [k \in Cells |-> Uninit]
    /\ rhov_new = [k \in Cells |-> Uninit]
    /\ E_new = [k \in Cells |-> Uninit]
    /\ solid = [w \in 0..(NWords - 1) |-> {}]
    /\ thr = [t \in Threads |-> [k |-> ChunkLo(t), st |-> "load", w |-> {}]]
    /\ dt = 0
    /\ todo = {}
    /\ total_kinetic = 0
    /\ out = <<>>
    /\ log = EmptyLog

Init == InitWith(Radii, V0s, {ShortRun})

\* a long run of the obstacle-free configuration with v0 = 0
InitLong == InitWith({0}, {0}, {LongRun})

\* ------------------------------------------------------------ Initializer
\* solid[k] = b, first half: the word holding bit k is read
InitLoad(t) ==
    /\ pc = "init"
    /\ thr[t].st = "load"
    /\ thr[t].k < ChunkHi(t)
    /\ thr' = [thr EXCEPT ![t] = [@ EXCEPT !.st = "store", !.w = solid[thr[t].k \div WordBits]]]
    /\ UNCHANGED <<radius, v0, nSteps, pc, n, rho, rhou, rhov, E,
                   rho_new, rhou_new, rhov_new, E_new, solid, dt, todo, total_kinetic, out, log>>

\* second half: the word is written back with bit k changed; then the fields
InitStore(t) ==
    LET k == thr[t].k
        s == InObstacle(Col(k), Row(k))
        bit == k % WordBits
        word == IF s THEN thr[t].w \cup {bit} ELSE thr[t].w \ {bit}
    IN  /\ pc = "init"
        /\ thr[t].st = "store"
        /\ solid' = [solid EXCEPT ![k \div WordBits] = word]
        /\ rho' = [rho EXCEPT ![k] = rho0]
        /\ rhou' = [rhou EXCEPT ![k] = IF s THEN 0 ELSE Mul(rho0, u0)]
        /\ rhov' = [rhov EXCEPT ![k] = IF s THEN 0 ELSE Mul(rho0, v0)]
        /\ E' = [E EXCEPT ![k] = IF s THEN Div(p0, gamma_val - Scale) ELSE E0(v0)]
        /\ thr' = [thr EXCEPT ![t] = [k |-> k + 1, st |-> "load", w |-> {}]]
        /\ UNCHANGED <<radius, v0, nSteps, pc, n, rho_new, rhou_new, rhov_new, E_new,
                       dt, todo, total_kinetic, out, log>>

\* -------------------------------------------------------- time-stepping
InitDone == \A t \in Threads : thr[t].k = ChunkHi(t)

\* variant: the next region is launched without waiting (nowait)
PassDoneNowait == TRUE

\* a target region returns only after all its iterations have run
PassDone == todo = {}

\* dt from the CFL condition; the loop is entered
EnterLoop ==
    /\ pc = "init"
    /\ InitDone
    /\ dt' = LET c0 == Sqrt(Div(Mul(gamma_val, p0), rho0))
             IN  Div(Div(Mul(CFL, Min(dx, dy)), Abs(u0) + c0), 2 * Scale)
    /\ n' = 0
    /\ pc' = "loop"
    /\ UNCHANGED <<radius, v0, nSteps, rho, rhou, rhov, E, rho_new, rhou_new, rhov_new, E_new,
                   solid, thr, todo, total_kinetic, out, log>>

LRRange == 0..(Ny + 1)

\* variant: the bottom/top pass leaves the corners to the left/right pass
TBRangeInner == 1..Nx

TBRange == 0..(Nx + 1)

UpdateRange == Interior

\* variant: the commit loop runs one column too far
CommitRangeOff == {Idx(i, j) : i \in 1..(Nx + 1), j \in 1..Ny}

CommitRange == Interior

\* for (n = 0; n < nSteps; n++): the left/right boundary pass is launched
LaunchLR ==
    /\ pc = "loop"
    /\ n < nSteps
    /\ pc' = "bc_lr"
    /\ todo' = LRRange
    /\ log' = EmptyLog
    /\ UNCHANGED <<radius, v0, nSteps, n, rho, rhou, rhov, E, rho_new, rhou_new, rhov_new, E_new,
                   solid, thr, dt, total_kinetic, out>>

\* variant: zero-gradient extrapolation on the left edge too
InflowCopy(j) == [rho |-> rho[Idx(1, j)], rhou |-> rhou[Idx(1, j)],
                  rhov |-> rhov[Idx(1, j)], E |-> E[Idx(1, j)]]

\* the free-stream state forced on the left ghost column
Inflow(j) == [rho |-> rho0, rhou |-> Mul(rho0, u0), rhov |-> Mul(rho0, v0), E |-> E0(v0)]

\* the state copied into the right ghost column
Outflow(j) == [rho |-> rho[Idx(Nx, j)], rhou |-> rhou[Idx(Nx, j)],
               rhov |-> rhov[Idx(Nx, j)], E |-> E[Idx(Nx, j)]]

BoundaryLR(j) ==
    LET l == Idx(0, j)
        r == Idx(Nx + 1, j)
    IN  /\ pc = "bc_lr"
        /\ j \in todo
        /\ rho' = [rho EXCEPT ![l] = Inflow(j).rho, ![r] = Outflow(j).rho]
        /\ rhou' = [rhou EXCEPT ![l] = Inflow(j).rhou, ![r] = Outflow(j).rhou]
        /\ rhov' = [rhov EXCEPT ![l] = Inflow(j).rhov, ![r] = Outflow(j).rhov]
        /\ E' = [E EXCEPT ![l] = Inflow(j).E, ![r] = Outflow(j).E]
        /\ todo' = todo \ {j}
        /\ log' = [log EXCEPT !.lr = @ \cup {j}]
        /\ UNCHANGED <<radius, v0, nSteps, pc, n, rho_new, rhou_new, rhov_new, E_new,
                       solid, thr, dt, total_kinetic, out>>

LaunchTB ==
    /\ pc = "bc_lr"
    /\ PassDone
    /\ pc' = "bc_tb"
    /\ todo' = TBRange
    /\ UNCHANGED <<radius, v0, nSteps, n, rho, rhou, rhov, E, rho_new, rhou_new, rhov_new, E_new,
                   solid, thr, dt, total_kinetic, out, log>>

\* variant: the normal momentum is copied, not negated
MirrorNoNeg(k) == [rho |-> rho[k], rhou |-> rhou[k], rhov |-> rhov[k], E |-> E[k]]

\* the state of cell k reflected at a horizontal wall
Mirror(k) == [rho |-> rho[k], rhou |-> rhou[k], rhov |-> -rhov[k], E |-> E[k]]

BoundaryTB(i) ==
    LET b == Idx(i, 0)
        t == Idx(i, Ny + 1)
        mb == Mirror(Idx(i, 1))
        mt == Mirror(Idx(i, Ny))
    IN  /\ pc = "bc_tb"
        /\ i \in todo
        /\ rho' = [rho EXCEPT ![b] = mb.rho, ![t] = mt.rho]
        /\ rhou' = [rhou EXCEPT ![b] = mb.rhou, ![t] = mt.rhou]
        /\ rhov' = [rhov EXCEPT ![b] = mb.rhov, ![t] = mt.rhov]
        /\ E' = [E EXCEPT ![b] = mb.E, ![t] = mt.E]
        /\ todo' = todo \ {i}
        /\ log' = [log EXCEPT !.tb = @ \cup {i}]
        /\ UNCHANGED <<radius, v0, nSteps, pc, n, rho_new, rhou_new, rhov_new, E_new,
                       solid, thr, dt, total_kinetic, out>>

LaunchUpdate ==
    /\ pc = "bc_tb"
    /\ PassDone
    /\ pc' = "update"
    /\ todo' = UpdateRange
    /\ UNCHANGED <<radius, v0, nSteps, n, rho, rhou, rhov, E, rho_new, rhou_new, rhov_new, E_new,
                   solid, thr, dt, total_kinetic, out, log>>

East(k) == k + (Ny + 2)

West(k) == k - (Ny + 2)

North(k) == k + 1

South(k) == k - 1

\* the elements of the current buffer an update of cell k reads
UpdateReads(k) == IF IsSolid(k) THEN {k} ELSE {East(k), West(k), North(k), South(k)}

\* variant: the weight of the one-dimensional scheme
LaxAvgHalf(e, w, no, so) == Mul(Half, e + w + no + so)

LaxAvg(e, w, no, so) == Mul(Quarter, e + w + no + so)

FluxXAt(k) == fluxX(rho[k], rhou[k], rhov[k], E[k])

FluxYAt(k) == fluxY(rho[k], rhou[k], rhov[k], E[k])

\* the Lax-Friedrichs update of a fluid cell
LaxFriedrichs(k) ==
    LET fx1 == FluxXAt(East(k))
        fx2 == FluxXAt(West(k))
        fy1 == FluxYAt(North(k))
        fy2 == FluxYAt(South(k))
        dtdx == Div(dt, Mul(2 * Scale, dx))
        dtdy == Div(dt, Mul(2 * Scale, dy))
    IN  [rho |-> LaxAvg(rho[East(k)], rho[West(k)], rho[North(k)], rho[South(k)])
                   - Mul(dtdx, fx1.frho - fx2.frho) - Mul(dtdy, fy1.frho - fy2.frho),
         rhou |-> LaxAvg(rhou[East(k)], rhou[West(k)], rhou[North(k)], rhou[South(k)])
                   - Mul(dtdx, fx1.frhou - fx2.frhou) - Mul(dtdy, fy1.frhou - fy2.frhou),
         rhov |-> LaxAvg(rhov[East(k)], rhov[West(k)], rhov[North(k)], rhov[South(k)])
                   - Mul(dtdx, fx1.frhov - fx2.frhov) - Mul(dtdy, fy1.frhov - fy2.frhov),
         E |-> LaxAvg(E[East(k)], E[West(k)], E[North(k)], E[South(k)])
                   - Mul(dtdx, fx1.fE - fx2.fE) - Mul(dtdy, fy1.fE - fy2.fE)]

\* variant: no solid branch, every cell gets the flux update
UpdateValueNoMask(k) == LaxFriedrichs(k)

\* what the interior update stores for cell k
UpdateValue(k) ==
    IF IsSolid(k)
    THEN [rho |-> rho[k], rhou |-> rhou[k], rhov |-> rhov[k], E |-> E[k]]
    ELSE LaxFriedrichs(k)

\* variant: single-buffered update, the result is stored into the current buffer
UpdateCellInPlace(k) ==
    /\ pc = "update"
    /\ k \in todo
    /\ LET nv == UpdateValue(k)
       IN  /\ rho' = [rho EXCEPT ![k] = nv.rho]
           /\ rhou' = [rhou EXCEPT ![k] = nv.rhou]
           /\ rhov' = [rhov EXCEPT ![k] = nv.rhov]
           /\ E' = [E EXCEPT ![k] = nv.E]
    /\ todo' = todo \ {k}
    /\ log' = [log EXCEPT !.upd = @ \cup {k}, !.rdCur = @ \cup UpdateReads(k)]
    /\ UNCHANGED <<radius, v0, nSteps, pc, n, rho_new, rhou_new, rhov_new, E_new,
                   solid, thr, dt, total_kinetic, out>>

UpdateCell(k) ==
    /\ pc = "update"
    /\ k \in todo
    /\ LET nv == UpdateValue(k)
       IN  /\ rho_new' = [rho_new EXCEPT ![k] = nv.rho]
           /\ rhou_new' = [rhou_new EXCEPT ![k] = nv.rhou]
           /\ rhov_new' = [rhov_new EXCEPT ![k] = nv.rhov]
           /\ E_new' = [E_new EXCEPT ![k] = nv.E]
    /\ todo' = todo \ {k}
    /\ log' = [log EXCEPT !.upd = @ \cup {k}, !.rdCur = @ \cup UpdateReads(k),
                          !.wrNew = @ \cup {k}]
    /\ UNCHANGED <<radius, v0, nSteps, pc, n, rho, rhou, rhov, E,
                   solid, thr, dt, total_kinetic, out>>

LaunchCommit ==
    /\ pc = "update"
    /\ PassDone
    /\ pc' = "commit"
    /\ todo' = CommitRange
    /\ UNCHANGED <<radius, v0, nSteps, n, rho, rhou, rhov, E, rho_new, rhou_new, rhov_new, E_new,
                   solid, thr, dt, total_kinetic, out, log>>

CommitCell(k) ==
    /\ pc = "commit"
    /\ k \in todo
    /\ rho' = [rho EXCEPT ![k] = rho_new[k]]
    /\ rhou' = [rhou EXCEPT ![k] = rhou_new[k]]
    /\ rhov' = [rhov EXCEPT ![k] = rhov_new[k]]
    /\ E' = [E EXCEPT ![k] = E_new[k]]
    /\ todo' = todo \ {k}
    /\ log' = [log EXCEPT !.com = @ \cup {k}, !.rdNew = @ \cup {k}]
    /\ UNCHANGED <<radius, v0, nSteps, pc, n, rho_new, rhou_new, rhov_new, E_new,
                   solid, thr, dt, total_kinetic, out>>

\* variant: the diagnostic is due at the end of each block of steps
DiagDueOff(m) == (m + 1) % DiagEvery = 0

DiagDue(m) == m % DiagEvery = 0

\* if (n % 50 == 0): the reduction is launched; otherwise n++
AfterCommit ==
    /\ pc = "commit"
    /\ PassDone
    /\ IF DiagDue(n)
       THEN /\ pc' = "diag"
            /\ todo' = Interior
            /\ total_kinetic' = 0
            /\ n' = n
       ELSE /\ pc' = "loop"
            /\ todo' = {}
            /\ total_kinetic' = total_kinetic
            /\ n' = n + 1
    /\ UNCHANGED <<radius, v0, nSteps, rho, rhou, rhov, E, rho_new, rhou_new, rhov_new, E_new,
                   solid, thr, dt, out, log>>

\* one term of the kinetic-energy reduction
DiagCell(k) ==
    LET u == Div(rhou[k], rho[k])
        v == Div(rhov[k], rho[k])
    IN  /\ pc = "diag"
        /\ k \in todo
        /\ total_kinetic' = total_kinetic + Mul(Mul(Half, rho[k]), Mul(u, u) + Mul(v, v))
        /\ todo' = todo \ {k}
        /\ log' = [log EXCEPT !.diag = @ \cup {k}]
        /\ UNCHANGED <<radius, v0, nSteps, pc, n, rho, rhou, rhov, E, rho_new, rhou_new, rhov_new,
                       E_new, solid, thr, dt, out>>

\* cout << "Step " << n << ... ; n++
DiagPrint ==
    /\ pc = "diag"
    /\ PassDone
    /\ out' = Append(out, <<n, total_kinetic>>)
    /\ n' = n + 1
    /\ pc' = "loop"
    /\ UNCHANGED <<radius, v0, nSteps, rho, rhou, rhov, E, rho_new, rhou_new, rhov_new, E_new,
                   solid, thr, dt, todo, total_kinetic, log>>

Finish ==
    /\ pc = "loop"
    /\ n >= nSteps
    /\ pc' = "done"
    /\ UNCHANGED <<radius, v0, nSteps, n, rho, rhou, rhov, E, rho_new, rhou_new, rhov_new, E_new,
                   solid, thr, dt, todo, total_kinetic, out, log>>

Next ==
    \/ \E t \in Threads : InitLoad(t)
    \/ \E t \in Threads : InitStore(t)
    \/ EnterLoop
    \/ LaunchLR
    \/ \E j \in LRRange : BoundaryLR(j)
    \/ LaunchTB
    \/ \E i \in TBRange : BoundaryTB(i)
    \/ LaunchUpdate
    \/ \E k \in UpdateRange : UpdateCell(k)
    \/ LaunchCommit
    \/ \E k \in CommitRange : CommitCell(k)
    \/ AfterCommit
    \/ \E k \in Interior : DiagCell(k)
    \/ DiagPrint
    \/ Finish

Spec == Init /\ [][Next]_vars

SpecLong == InitLong /\ [][Next]_vars

\* ------------------------------------------------------------ properties
\* the four conserved values of element k of the current / next buffer
Cell(k) == [rho |-> rho[k], rhou |-> rhou[k], rhov |-> rhov[k], E |-> E[k]]

NewCell(k) == [rho |-> rho_new[k], rhou |-> rhou_new[k], rhov |-> rhov_new[k], E |-> E_new[k]]

FreeStream == [rho |-> rho0, rhou |-> Mul(rho0, u0), rhov |-> Mul(rho0, v0),
               E |-> Div(p0, gamma_val - Scale)
                       + Mul(Mul(Half, rho0), Mul(u0, u0) + Mul(v0, v0))]

SolidSeed == [rho |-> rho0, rhou |-> 0, rhov |-> 0, E |-> Div(p0, gamma_val - Scale)]

Reflected(c) == [rho |-> c.rho, rhou |-> c.rhou, rhov |-> -c.rhov, E |-> c.E]

AllRows == 0..(Ny + 1)

AllCols == 0..(Nx + 1)

InteriorCells == {i * (Ny + 2) + j : i \in 1..Nx, j \in 1..Ny}

\* the Boundary Applicator of step n has run and step n has not ended
BoundaryApplied == pc \in {"update", "commit", "diag"} \/ (pc = "loop" /\ n > 0)

\* C1 (as stated): once the Boundary Applicator of a step has run, and until the
\* end of that step, every cell of the left ghost column, corners included,
\* holds the free-stream state.
C1_InflowColumnWithCorners ==
    BoundaryApplied => \A j \in AllRows : Cell(Idx(0, j)) = FreeStream

\* C1 (amended): in that span the cells (0,j), j in 1..Ny, hold the free-stream
\* state, and the two corners (0,0) and (0,Ny+1) hold it with rhov negated,
\* (rho0, rho0*u0, -rho0*v0, E0): the bottom/top pass rewrites them.
C1_InflowColumn ==
    BoundaryApplied =>
        /\ \A j \in 1..Ny : Cell(Idx(0, j)) = FreeStream
        /\ \A j \in {0, Ny + 1} : Cell(Idx(0, j)) = Reflected(FreeStream)

C1_Witness ==
    /\ pc = "loop"
    /\ n = 2
    /\ v0 # 0
    /\ \E k \in InteriorCells : Cell(k) # FreeStream

\* C2: after the Initializer, a cell whose mask entry is true holds its seed
\* (rho0, 0, 0, p0/(gamma-1)) in the current buffer at every point of every
\* step, so its state after step n+1 is its state after step n.
C2_SolidFrozen ==
    pc # "init" => \A k \in Cells : IsSolid(k) => Cell(k) = SolidSeed

C2_Witness ==
    /\ pc = "done"
    /\ n = nSteps
    /\ \E k \in InteriorCells : IsSolid(k)
    /\ \E k \in InteriorCells : ~IsSolid(k) /\ Cell(k) # FreeStream

\* C3: right after the Boundary Applicator (during the whole interior update,
\* which does not touch the current buffer) every bottom ghost cell (i,0) is the
\* mirror image of (i,1) and every top ghost cell (i,Ny+1) that of (i,Ny):
\* rho, rhou, E equal, rhov negated.
C3_ReflectiveSymmetry ==
    pc = "update" =>
        \A i \in AllCols :
            /\ Cell(Idx(i, 0)) = Reflected(Cell(Idx(i, 1)))
            /\ Cell(Idx(i, Ny + 1)) = Reflected(Cell(Idx(i, Ny)))

C3_Witness ==
    /\ pc = "update"
    /\ n >= 1
    /\ \E i \in 1..Nx : rhov[Idx(i, 1)] # 0 /\ rhov[Idx(i, 0)] = -rhov[Idx(i, 1)]

\* C4: with no solid cell (radius = 0) and v0 = 0, every interior cell holds
\* the free-stream state (rho0, rho0*u0, 0, E0) at every point of every step
\* after the Initializer.
C4_UniformFixedPoint ==
    (radius = 0 /\ v0 = 0 /\ pc # "init") =>
        \A k \in InteriorCells : Cell(k) = FreeStream /\ ~IsSolid(k)

C4_Witness ==
    /\ radius = 0
    /\ v0 = 0
    /\ pc = "loop"
    /\ n = nSteps
    /\ n > DiagEvery

\* C5: the passes of a step do not overlap: a bottom/top iteration runs only
\* after all left/right iterations, an interior update only after the whole
\* Boundary Applicator, a commit iteration only after every interior update,
\* and the left/right pass of step n+1 is launched only after the whole commit
\* of step n.
C5_PhaseOrdering ==
    /\ [](/\ log.tb # {} => log.lr = AllRows
          /\ log.upd # {} => (log.lr = AllRows /\ log.tb = AllCols)
          /\ log.com # {} => log.upd = InteriorCells
          /\ (pc \in {"bc_lr", "bc_tb", "update"} /\ n > 0) => log.com = {})
    /\ [][(pc' = "bc_lr" /\ pc # "bc_lr" /\ n > 0) => log.com = InteriorCells]_vars

C5_Witness ==
    /\ pc = "bc_lr"
    /\ n = 1
    /\ log.lr # {}
    /\ log.lr # AllRows

\* C6: during the interior update, in any interleaving of the cell updates, the
\* current buffer is not written, each update writes one next-buffer element of
\* its own, and what each finished update stored is the value the whole-pass
\* (sequential) update gives for that cell; when the commit is launched this
\* holds of every interior cell.
C6_RaceFreeUpdate ==
    /\ [](/\ pc = "update" =>
                /\ \A k \in log.upd : NewCell(k) = UpdateValue(k)
                /\ log.wrNew = log.upd
                /\ log.rdNew = {}
                /\ Cardinality(log.wrNew) = Cardinality(InteriorCells) - Cardinality(todo)
          /\ (pc = "commit" /\ log.com = {}) =>
                \A k \in InteriorCells : NewCell(k) = UpdateValue(k))
    /\ [][(pc = "update" /\ pc' = "update") => UNCHANGED <<rho, rhou, rhov, E>>]_vars

C6_Witness ==
    /\ pc = "commit"
    /\ log.com = {}
    /\ n >= 1
    /\ \E k \in InteriorCells : NewCell(k) # Cell(k)

\* C7 (as stated): when the Initializer has finished, whatever the interleaving
\* of its iterations, the mask entry of every cell is true iff the cell centre
\* lies within the obstacle, and the fields hold the matching seed.
C7_InitDeterministic ==
    pc # "init" =>
        \A k \in Cells : IsSolid(k) <=> InObstacle(Col(k), Row(k))

\* C8: the diagnostic has printed exactly the steps m < n with m mod 50 = 0; it
\* runs in step n only after the whole commit of step n and before step n+1 is
\* started; and it changes no element of the current buffer, the next buffer or
\* the mask.
C8_DiagnosticsSchedule ==
    /\ [](/\ Len(out) = Cardinality({m \in 0..(n - 1) : m % 50 = 0})
          /\ \A i \in 1..Len(out) : out[i][1] = 50 * (i - 1)
          /\ pc = "diag" => (n % 50 = 0 /\ log.com = InteriorCells /\ log.lr = AllRows)
          /\ log.diag # {} => log.com = InteriorCells)
    /\ [][pc = "diag" => /\ UNCHANGED <<rho, rhou, rhov, E, rho_new, rhou_new, rhov_new,
                                         E_new, solid>>
                         /\ pc' \in {"diag", "loop"}]_vars

C8_Witness ==
    /\ pc = "done"
    /\ n > 50
    /\ Len(out) = 2
    /\ out[2][1] = 50

\* C9: right after the Boundary Applicator the four corner ghost cells hold the
\* reflective rule's value, the mirror image of (i,1) resp. (i,Ny) for
\* i in {0, Nx+1}, so with v0 # 0 the left corners differ from the free-stream
\* state; and no corner cell is read by the interior update.
C9_CornerResolution ==
    /\ pc = "update" =>
          /\ \A i \in {0, Nx + 1} :
                /\ Cell(Idx(i, 0)) = Reflected(Cell(Idx(i, 1)))
                /\ Cell(Idx(i, Ny + 1)) = Reflected(Cell(Idx(i, Ny)))
          /\ v0 # 0 => (Cell(Idx(0, 0)) # FreeStream /\ Cell(Idx(0, Ny + 1)) # FreeStream)
    /\ log.rdCur \cap Corners = {}

C9_Witness ==
    /\ pc = "update"
    /\ v0 # 0
    /\ n >= 1
    /\ todo = {}
    /\ log.rdCur # {}

\* C10: every next-buffer element the commit has read in a step is an interior
\* element written by the interior update of that same step (the finished commit
\* has read exactly the interior), no value committed is the content of an
\* unwritten element, and the ghost elements of the next buffer are never
\* written or read.
C10_NoUnwrittenRead ==
    /\ log.rdNew \subseteq log.wrNew
    /\ log.rdNew \subseteq InteriorCells
    /\ log.wrNew \subseteq InteriorCells
    /\ (pc = "commit" /\ todo = {}) => log.rdNew = InteriorCells
    /\ \A k \in log.com : Cell(k) = NewCell(k) /\ rho[k] # Uninit /\ E[k] # Uninit
    /\ \A k \in Cells \ InteriorCells :
          rho_new[k] = Uninit /\ rhou_new[k] = Uninit /\ rhov_new[k] = Uninit
          /\ E_new[k] = Uninit

C10_Witness ==
    /\ pc = "commit"
    /\ todo = {}
    /\ n >= 1
    /\ log.rdNew = InteriorCells
    /\ \E k \in InteriorCells : rho_new[k] # rho0
====
